---- MODULE Spec2Model ----
(***************************************************************************)
(* Model of organize_folder.py: SmartFileOrganizer (the extension table,   *)
(* the Gemini fallback, organize_file, the initial sweep, the watchdog     *)
(* callbacks) and main.                                                    *)
(*                                                                         *)
(* File names are strings, so that os.path.splitext, str.lower, str.strip  *)
(* and the "name_counter ext" renaming are computed character by           *)
(* character.  The filesystem is a function from paths to entries; a path  *)
(* is <<name>> for an entry of the watch folder and <<folder, name>> for   *)
(* an entry of a folder directly under it.                                 *)
(***************************************************************************)
EXTENDS Integers, Sequences, FiniteSets, TLC

VARIABLES
    fs,          \* the filesystem under the watch folder: path -> entry
    pc,          \* where main() is
    observer,    \* the watchdog observer thread: "new", "running", "stopped", "dead"
    todo,        \* organize_existing_files: names of `files` not yet visited
    snapshot,    \* organize_existing_files: the list `files`
    events,      \* the observer's queue of filesystem events
    handling,    \* events whose on_created callback has begun and not returned
    aiCalls,     \* number of model.generate_content calls made
    calls,       \* number of organize_file / get_category calls, per caller
    delivered,   \* number of creation events for non-directories handed to on_created
    classified,  \* get_category calls so far, by whether the extension is listed
    last,        \* the latest organize_file / get_category call: its inputs and result
    errors,      \* the "Error organizing" lines printed: <<path, exception>>
    envOps       \* number of changes other processes made to the watch folder

vars == <<fs, pc, observer, todo, snapshot, events, handling, aiCalls, calls,
          delivered, classified, last, errors, envOps>>

----------------------------------------------------------------------------
(* Bounds *)

MaxEnvOps == 2
MaxQueue == 2
MaxClassify == 2

----------------------------------------------------------------------------
(* Strings *)

Char(s, i) == SubSeq(s, i, i)

UpperCase == "ABCDEFGHIJKLMNOPQRSTUVWXYZ"
LowerCase == "abcdefghijklmnopqrstuvwxyz"

LowerTable ==
    [c \in {Char(UpperCase, i) : i \in 1..26} |->
        Char(LowerCase, CHOOSE i \in 1..26 : Char(UpperCase, i) = c)]

LowerChar(c) == IF c \in DOMAIN LowerTable THEN LowerTable[c] ELSE c

RECURSIVE Lower(_)
Lower(s) ==
    IF s = "" THEN "" ELSE LowerChar(Char(s, 1)) \o Lower(SubSeq(s, 2, Len(s)))

Whitespace == {" ", "\t", "\n", "\r"}

RECURSIVE LStrip(_)
LStrip(s) ==
    IF s # "" /\ Char(s, 1) \in Whitespace THEN LStrip(SubSeq(s, 2, Len(s))) ELSE s

RECURSIVE RStrip(_)
RStrip(s) ==
    IF s # "" /\ Char(s, Len(s)) \in Whitespace
    THEN RStrip(SubSeq(s, 1, Len(s) - 1))
    ELSE s

Strip(s) == RStrip(LStrip(s))

\* os.path.splitext on a basename: the extension starts at the last dot,
\* unless only dots precede it.
SplitExt(p) ==
    LET dots == {i \in 1..Len(p) : Char(p, i) = "."}
        dotIndex == IF dots = {} THEN 0 ELSE CHOOSE i \in dots : \A j \in dots : j <= i
    IN  IF \E i \in 1..(dotIndex - 1) : Char(p, i) # "."
        THEN <<SubSeq(p, 1, dotIndex - 1), SubSeq(p, dotIndex, Len(p))>>
        ELSE <<p, "">>

StartsWithDot(name) == name # "" /\ Char(name, 1) = "."

----------------------------------------------------------------------------
(* The category table and the classifier *)

categories ==
    [ Images        |-> {".jpg", ".jpeg", ".png", ".gif", ".bmp", ".svg", ".webp", ".ico"},
      Videos        |-> {".mp4", ".avi", ".mkv", ".mov", ".wmv", ".flv", ".webm", ".m4v"},
      Audio         |-> {".mp3", ".wav", ".flac", ".aac", ".ogg", ".wma", ".m4a"},
      Documents     |-> {".pdf", ".doc", ".docx", ".txt", ".rtf", ".odt", ".tex"},
      Spreadsheets  |-> {".xls", ".xlsx", ".csv", ".ods"},
      Presentations |-> {".ppt", ".pptx", ".odp", ".key"},
      Code          |-> {".py", ".js", ".html", ".css", ".java", ".cpp", ".c", ".h",
                         ".php", ".rb", ".go", ".rs", ".ts", ".jsx", ".tsx", ".vue",
                         ".swift", ".kt", ".sql", ".sh", ".bash", ".json", ".xml",
                         ".yaml", ".yml"},
      Archives      |-> {".zip", ".rar", ".7z", ".tar", ".gz", ".bz2", ".xz"},
      Executables   |-> {".exe", ".msi", ".app", ".dmg", ".deb", ".rpm"},
      Databases     |-> {".db", ".sqlite", ".sql", ".mdb"},
      Fonts         |-> {".ttf", ".otf", ".woff", ".woff2"},
      CAD           |-> {".dwg", ".dxf", ".stl", ".obj"} ]

\* The order in which self.categories.items() yields the table (insertion order).
categoryOrder ==
    <<"Images", "Videos", "Audio", "Documents", "Spreadsheets", "Presentations",
      "Code", "Archives", "Executables", "Databases", "Fonts", "CAD">>

valid_categories ==
    DOMAIN categories \cup
    {"Design", "3D Models", "Ebooks", "Notes", "Scripts",
     "Configuration", "Logs", "Backups", "Temporary", "Other"}

\* What model.generate_content does on one call: it raises, or returns a text.
Responses ==
    {[raises |-> TRUE, text |-> ""]} \cup
    {[raises |-> FALSE, text |-> t] :
        t \in {"Design", " Spreadsheets\n", "design"}}

\* A faulty get_ai_category: the response is validated without .strip().
GetAiCategoryUnstripped(file_name, resp) ==
    IF resp.raises THEN "Other"
    ELSE IF resp.text \in valid_categories THEN resp.text ELSE "Other"

\* get_ai_category: one generate_content call; its result, validated.
GetAiCategory(file_name, resp) ==
    IF resp.raises THEN "Other"
    ELSE LET category == Strip(resp.text)
         IN  IF category \in valid_categories THEN category ELSE "Other"

\* The for loop of get_category over the table, in the given order.
FirstMatch(order, ext) ==
    LET hits == {i \in 1..Len(order) : ext \in categories[order[i]]}
    IN  IF hits = {} THEN "" ELSE order[CHOOSE i \in hits : \A j \in hits : i <= j]

\* A faulty get_category: the extension is looked up without .lower().
GetCategoryCaseSensitive(file_name, resp) ==
    LET ext == SplitExt(file_name)[2]
        hit == FirstMatch(categoryOrder, ext)
    IN  IF hit # "" THEN [category |-> hit, ai |-> 0]
        ELSE [category |-> GetAiCategory(file_name, resp), ai |-> 1]

\* get_category: the category, and the number of generate_content calls it made.
GetCategory(file_name, resp) ==
    LET ext == Lower(SplitExt(file_name)[2])
        hit == FirstMatch(categoryOrder, ext)
    IN  IF hit # "" THEN [category |-> hit, ai |-> 0]
        ELSE [category |-> GetAiCategory(file_name, resp), ai |-> 1]

----------------------------------------------------------------------------
(* The classifier alone: get_category applied to a range of file names *)

TableExtensions == UNION {categories[c] : c \in DOMAIN categories}

ClassifyNames ==
    {"f" \o e : e \in TableExtensions} \cup
    {"PHOTO.JPG", "Query.Sql", "archive.tar.gz", "notes.TXT", "a.b.c.Py",
     "mystery.xyz", "README", "Other", "data.", ".bashrc", "..txt", "x.txt.bak"}

ListedExtension(file_name) == Lower(SplitExt(file_name)[2]) \in TableExtensions

NoCall ==
    [op |-> "none", caller |-> "", name |-> "", category |-> "", ai |-> 0,
     resp |-> [raises |-> FALSE, text |-> ""], outcome |-> "", dest |-> <<>>,
     refused |-> FALSE, escaped |-> FALSE]

InitClassify ==
    /\ fs = <<>>
    /\ pc = "classify"
    /\ observer = "new"
    /\ todo = {}
    /\ snapshot = {}
    /\ events = <<>>
    /\ handling = {}
    /\ aiCalls = 0
    /\ calls = [sweep |-> 0, event |-> 0, classify |-> 0]
    /\ delivered = 0
    /\ classified = [known |-> 0, unknown |-> 0]
    /\ last = NoCall
    /\ errors = {}
    /\ envOps = 0

Classify(file_name, resp) ==
    /\ pc = "classify"
    /\ calls.classify < MaxClassify
    /\ LET r == GetCategory(file_name, resp)
       IN  /\ aiCalls' = aiCalls + r.ai
           /\ last' = [NoCall EXCEPT !.op = "classify", !.caller = "classify",
                                     !.name = file_name, !.category = r.category,
                                     !.ai = r.ai,
                                     !.resp = IF r.ai = 1 THEN resp ELSE NoCall.resp]
    /\ calls' = [calls EXCEPT !.classify = @ + 1]
    /\ classified' = [classified EXCEPT
                        ![IF ListedExtension(file_name) THEN "known" ELSE "unknown"] = @ + 1]
    /\ UNCHANGED <<fs, pc, observer, todo, snapshot, events, handling, delivered,
                   errors, envOps>>

NextClassify == \E file_name \in ClassifyNames, resp \in Responses : Classify(file_name, resp)

SpecClassify == InitClassify /\ [][NextClassify]_vars

----------------------------------------------------------------------------
(* The filesystem *)

DirEntry == [dir |-> TRUE, content |-> 0]
FileEntry(c) == [dir |-> FALSE, content |-> c]

Exists(f, p) == p \in DOMAIN f
IsDir(f, p) == p \in DOMAIN f /\ f[p].dir
IsFile(f, p) == p \in DOMAIN f /\ ~f[p].dir

Put(f, p, e) == [q \in DOMAIN f \cup {p} |-> IF q = p THEN e ELSE f[q]]
Remove(f, p) == [q \in DOMAIN f \ {p} |-> f[q]]

\* A faulty mkdir: its errors are swallowed and organize_file goes on.
MkdirSwallowingErrors(f, p, denied) ==
    IF p \in DOMAIN f \/ denied
    THEN [fs |-> f, raised |-> "none"]
    ELSE [fs |-> Put(f, p, DirEntry), raised |-> "none"]

\* Path.mkdir(exist_ok=True): an existing directory is accepted, an existing
\* file raises FileExistsError, and the creation itself may be refused.
Mkdir(f, p, denied) ==
    IF p \in DOMAIN f
    THEN IF f[p].dir THEN [fs |-> f, raised |-> "none"]
         ELSE [fs |-> f, raised |-> "FileExistsError"]
    ELSE IF denied THEN [fs |-> f, raised |-> "PermissionError"]
         ELSE [fs |-> Put(f, p, DirEntry), raised |-> "none"]

\* A faulty move: a copy, which leaves the source in the watch folder.
MoveLeavingSource(f, src, dst, fails) ==
    IF fails THEN [fs |-> f, raised |-> "OSError"]
    ELSE [fs |-> Put(f, dst, f[src]), raised |-> "none"]

\* shutil.move(file_path, destination) to a destination that does not exist:
\* a rename, which may fail.
Move(f, src, dst, fails) ==
    IF fails THEN [fs |-> f, raised |-> "OSError"]
    ELSE [fs |-> Put(Remove(f, src), dst, f[src]), raised |-> "none"]

----------------------------------------------------------------------------
(* organize_file *)

\* category_folder / f"{name}_{counter}{ext}"
Renamed(category, file_name, counter) ==
    LET parts == SplitExt(file_name)
    IN  <<category, parts[1] \o "_" \o ToString(counter) \o parts[2]>>

RECURSIVE WhileDestinationExists(_, _, _, _, _)
WhileDestinationExists(f, category, file_name, destination, counter) ==
    IF Exists(f, destination)
    THEN WhileDestinationExists(f, category, file_name,
                                Renamed(category, file_name, counter), counter + 1)
    ELSE destination

\* A faulty destination: the duplicate-name loop is left out.
ResolveDestinationUnchecked(f, category, file_name) == <<category, file_name>>

\* The destination and the "Handle duplicate names" loop.
ResolveDestination(f, category, file_name) ==
    WhileDestinationExists(f, category, file_name, <<category, file_name>>, 1)

\* A faulty skip test: hidden files are not skipped.
SkipsDirectoriesOnly(f, file_name) == IsDir(f, <<file_name>>)

\* "Skip if it's a directory or hidden file"
Skips(f, file_name) == IsDir(f, <<file_name>>) \/ StartsWithDot(file_name)

\* A faulty organize_file: no try/except around its body.
CatchesNothing(exc) == FALSE

\* "except Exception": every error mkdir and shutil.move raise is an Exception.
Catches(exc) == exc \in {"FileExistsError", "PermissionError", "OSError"}

\* print(f"Error organizing {file_path}: {e}")
ReportError(errs, file_name, exc) == errs \cup {<<file_name, exc>>}

\* The try block of organize_file on the filesystem f: the filesystem it leaves,
\* the category it chose, the generate_content calls made and what it raised.
OrganizeFile(f, file_name, resp, denied, moveFails) ==
    LET path == <<file_name>>
        base == [fs |-> f, category |-> "", ai |-> 0, outcome |-> "absent",
                 raised |-> "none", dest |-> <<>>]
    IN  IF ~Exists(f, path) THEN base
        ELSE IF Skips(f, file_name) THEN [base EXCEPT !.outcome = "skipped"]
        ELSE
          LET c == GetCategory(file_name, resp)
              made == Mkdir(f, <<c.category>>, denied)
              classed == [base EXCEPT !.category = c.category, !.ai = c.ai]
          IN  IF made.raised # "none"
              THEN [classed EXCEPT !.outcome = "mkdir failed", !.raised = made.raised]
              ELSE
                LET destination == ResolveDestination(made.fs, c.category, file_name)
                    moved == Move(made.fs, path, destination, moveFails)
                IN  IF moved.raised # "none"
                    THEN [classed EXCEPT !.fs = moved.fs, !.outcome = "move failed",
                                         !.raised = moved.raised]
                    ELSE [classed EXCEPT !.fs = moved.fs, !.outcome = "moved",
                                         !.dest = destination]

\* One organize_file call by `caller`, with what the outside world does during
\* it: the classifier's response, and whether mkdir and the move are refused.
CallOrganizeFile(caller, file_name, resp, denied, moveFails) ==
    LET r == OrganizeFile(fs, file_name, resp, denied, moveFails)
        escaped == r.raised # "none" /\ ~Catches(r.raised)
    IN  /\ fs' = r.fs
        /\ aiCalls' = aiCalls + r.ai
        /\ calls' = [calls EXCEPT ![caller] = @ + 1]
        /\ errors' = IF r.raised # "none" /\ ~escaped
                     THEN ReportError(errors, file_name, r.raised) ELSE errors
        /\ last' = [op |-> "organize", caller |-> caller, name |-> file_name,
                    category |-> r.category, ai |-> r.ai,
                    resp |-> NoCall.resp,
                    outcome |-> r.outcome, dest |-> r.dest,
                    refused |-> denied /\ r.category # "" /\ ~Exists(fs, <<r.category>>),
                    escaped |-> escaped]

----------------------------------------------------------------------------
(* The watch folder when main starts, and what other processes put in it *)

InitialRootFiles ==
    [n \in {"a.txt", "m.xyz", "Documents"} |->
        CASE n = "a.txt" -> 1 [] n = "m.xyz" -> 2 [] OTHER -> 3]

\* What else the watch folder holds: a subdirectory and a hidden file, or a
\* Documents folder from an earlier run with a.txt and a_1.txt in it.
InitialFolders ==
    { [p \in {<<"sub">>, <<".h.txt">>} |-> IF p[1] = "sub" THEN DirEntry ELSE FileEntry(4)],
      [p \in {<<"Documents">>, <<"Documents", "a.txt">>, <<"Documents", "a_1.txt">>} |->
          IF Len(p) = 1 THEN DirEntry
          ELSE IF p[2] = "a.txt" THEN FileEntry(6) ELSE FileEntry(7)] }

WithRootFiles(folders, names) ==
    [p \in DOMAIN folders \cup {<<n>> : n \in names} |->
        IF p \in DOMAIN folders THEN folders[p] ELSE FileEntry(InitialRootFiles[p[1]])]

InitialFilesystems ==
    { WithRootFiles(c[1], c[2]) :
        c \in {d \in InitialFolders \X SUBSET DOMAIN InitialRootFiles :
                  \A n \in d[2] : <<n>> \notin DOMAIN d[1]} }

\* The classifier's behaviours the organizer is run against: it raises, or it
\* names a category (with whitespace around it).
OrganizerResponses == {r \in Responses : r.raises \/ r.text = " Spreadsheets\n"}

\* What may go wrong in one organize_file call: nothing, the creation of the
\* category folder is refused, or the move fails.
Faults == {"none", "mkdir", "move"}

CreatedFileNames == {"a.txt", "m.xyz", ".h.txt"}
CreatedDirNames == {"m.xyz"}

Event(kind, name, isDir) == [kind |-> kind, src_path |-> name, is_directory |-> isDir]

----------------------------------------------------------------------------
(* organize_existing_files and main *)

Init ==
    /\ fs \in InitialFilesystems
    /\ pc = "main"
    /\ observer = "new"
    /\ todo = {}
    /\ snapshot = {}
    /\ events = <<>>
    /\ handling = {}
    /\ aiCalls = 0
    /\ calls = [sweep |-> 0, event |-> 0, classify |-> 0]
    /\ delivered = 0
    /\ classified = [known |-> 0, unknown |-> 0]
    /\ last = NoCall
    /\ errors = {}
    /\ envOps = 0

\* files = [f for f in iterdir() if f.is_file() and not f.name.startswith('.')]
ExistingFiles(f) ==
    {p[1] : p \in {q \in DOMAIN f : Len(q) = 1 /\ ~f[q].dir /\ ~StartsWithDot(q[1])}}

OrganizeExistingFilesBegin ==
    /\ pc = "main"
    /\ snapshot' = ExistingFiles(fs)
    /\ todo' = ExistingFiles(fs)
    /\ pc' = "sweeping"
    /\ UNCHANGED <<fs, observer, events, handling, aiCalls, calls, delivered,
                   classified, last, errors, envOps>>

\* One iteration of "for file_path in files", in whatever order iterdir gave.
OrganizeExistingFilesStep ==
    /\ pc = "sweeping"
    /\ \E file_name \in todo, resp \in OrganizerResponses, fault \in Faults :
          /\ CallOrganizeFile("sweep", file_name, resp, fault = "mkdir", fault = "move")
          /\ todo' = todo \ {file_name}
    /\ pc' = IF last'.escaped THEN "crashed" ELSE pc
    /\ UNCHANGED <<observer, snapshot, events, handling, delivered, classified, envOps>>

OrganizeExistingFilesEnd ==
    /\ pc = "sweeping"
    /\ todo = {}
    /\ pc' = "swept"
    /\ UNCHANGED <<fs, observer, todo, snapshot, events, handling, aiCalls, calls,
                   delivered, classified, last, errors, envOps>>

\* A faulty main: the observer is started before organize_existing_files returns.
MainStartObserverEarly ==
    /\ pc \in {"main", "sweeping"}
    /\ observer = "new"
    /\ observer' = "running"
    /\ UNCHANGED <<fs, pc, todo, snapshot, events, handling, aiCalls, calls,
                   delivered, classified, last, errors, envOps>>

\* observer.schedule(...); observer.start(), after organize_existing_files returned.
MainStartObserver ==
    /\ pc = "swept"
    /\ observer = "new"
    /\ observer' = "running"
    /\ pc' = "watching"
    /\ UNCHANGED <<fs, todo, snapshot, events, handling, aiCalls, calls,
                   delivered, classified, last, errors, envOps>>

\* KeyboardInterrupt in the "while True: time.sleep(1)" loop: observer.stop().
MainInterrupt ==
    /\ pc = "watching"
    /\ pc' = "joining"
    /\ observer' = IF observer = "running" THEN "stopped" ELSE observer
    /\ UNCHANGED <<fs, todo, snapshot, events, handling, aiCalls, calls,
                   delivered, classified, last, errors, envOps>>

\* observer.join() returns once the callback in progress has returned.
MainJoin ==
    /\ pc = "joining"
    /\ handling = {}
    /\ pc' = "exited"
    /\ UNCHANGED <<fs, observer, todo, snapshot, events, handling, aiCalls, calls,
                   delivered, classified, last, errors, envOps>>

----------------------------------------------------------------------------
(* Other processes, seen through the observer *)

EnvCanAct == observer = "running" /\ envOps < MaxEnvOps /\ Len(events) < MaxQueue

CreateFile(name) ==
    /\ EnvCanAct
    /\ ~Exists(fs, <<name>>)
    /\ fs' = Put(fs, <<name>>, FileEntry(10 + envOps))
    /\ events' = Append(events, Event("created", name, FALSE))
    /\ envOps' = envOps + 1
    /\ UNCHANGED <<pc, observer, todo, snapshot, handling, aiCalls, calls,
                   delivered, classified, last, errors>>

CreateDir(name) ==
    /\ EnvCanAct
    /\ ~Exists(fs, <<name>>)
    /\ fs' = Put(fs, <<name>>, DirEntry)
    /\ events' = Append(events, Event("created", name, TRUE))
    /\ envOps' = envOps + 1
    /\ UNCHANGED <<pc, observer, todo, snapshot, handling, aiCalls, calls,
                   delivered, classified, last, errors>>

\* A file of the watch folder is written to: a modification event.
ModifyFile(name) ==
    /\ EnvCanAct
    /\ IsFile(fs, <<name>>)
    /\ events' = Append(events, Event("modified", name, FALSE))
    /\ envOps' = envOps + 1
    /\ UNCHANGED <<fs, pc, observer, todo, snapshot, handling, aiCalls, calls,
                   delivered, classified, last, errors>>

\* The process that created a file removes it again (no callback handles deletions).
VanishFile(name) ==
    /\ EnvCanAct
    /\ IsFile(fs, <<name>>)
    /\ ~StartsWithDot(name)
    /\ fs' = Remove(fs, <<name>>)
    /\ envOps' = envOps + 1
    /\ UNCHANGED <<pc, observer, todo, snapshot, events, handling, aiCalls, calls,
                   delivered, classified, last, errors>>

----------------------------------------------------------------------------
(* The callbacks *)

\* A faulty on_created: no is_directory test.
OnCreatedAnyEvent(event) ==
    /\ handling' = handling \cup {event}
    /\ UNCHANGED <<fs, aiCalls, calls, last, errors>>

\* on_created up to time.sleep(1): the callback is now in progress.
OnCreated(event) ==
    /\ handling' = IF ~event.is_directory THEN handling \cup {event} ELSE handling
    /\ UNCHANGED <<fs, aiCalls, calls, last, errors>>

\* on_modified: pass
OnModified(event) ==
    UNCHANGED <<fs, handling, aiCalls, calls, last, errors>>

\* The observer thread calls one callback at a time: on_created blocks it
\* through the sleep and organize_file.
DispatcherFree == handling = {}

\* The observer thread takes the next event and calls the callback of its kind.
Dispatch ==
    /\ observer = "running"
    /\ events # <<>>
    /\ DispatcherFree
    /\ LET event == Head(events)
       IN  /\ events' = Tail(events)
           /\ delivered' = IF event.kind = "created" /\ ~event.is_directory
                           THEN delivered + 1 ELSE delivered
           /\ IF event.kind = "created" THEN OnCreated(event) ELSE OnModified(event)
    /\ UNCHANGED <<pc, observer, todo, snapshot, classified, envOps>>

\* on_created after the sleep: organize_file(event.src_path), then return.
OnCreatedOrganize ==
    /\ handling # {}
    /\ \E event \in handling, resp \in OrganizerResponses, fault \in Faults :
          /\ CallOrganizeFile("event", event.src_path, resp, fault = "mkdir", fault = "move")
          /\ handling' = handling \ {event}
    /\ observer' = IF last'.escaped THEN "dead" ELSE observer
    /\ UNCHANGED <<pc, todo, snapshot, events, delivered, classified, envOps>>

Next ==
    \/ OrganizeExistingFilesBegin
    \/ OrganizeExistingFilesStep
    \/ OrganizeExistingFilesEnd
    \/ MainStartObserver
    \/ MainInterrupt
    \/ MainJoin
    \/ \E name \in CreatedFileNames : CreateFile(name)
    \/ \E name \in CreatedDirNames : CreateDir(name)
    \/ \E name \in CreatedFileNames : ModifyFile(name)
    \/ \E name \in CreatedFileNames : VanishFile(name)
    \/ Dispatch
    \/ OnCreatedOrganize

Spec == Init /\ [][Next]_vars

----------------------------------------------------------------------------
(* Properties of the classifier, under SpecClassify *)

\* C1: a get_category call on a file whose lowercased extension is in the
\* table makes no generate_content call and answers from the table; as long
\* as only such files were classified, the number of generate_content calls
\* is 0, whatever the service would have answered.
C1_KnownExtensionsNeverCallAi ==
    /\ classified.unknown = 0 => aiCalls = 0
    /\ last.op = "classify" /\ ListedExtension(last.name) =>
          /\ last.ai = 0
          /\ Lower(SplitExt(last.name)[2]) \in categories[last.category]

C1_Witness ==
    /\ classified = [known |-> 2, unknown |-> 0]
    /\ last.name = "PHOTO.JPG"
    /\ last.category = "Images"
    /\ aiCalls = 0

\* C2: a get_category call on a file whose extension is not in the table makes
\* exactly one generate_content call; it returns the stripped response when
\* that is a valid category, and "Other" when it is not or the call raised;
\* every result of get_category is a valid category.
C2_UnknownExtensionOneValidatedCall ==
    /\ aiCalls = classified.unknown
    /\ last.op = "classify" => last.category \in valid_categories
    /\ last.op = "classify" /\ ~ListedExtension(last.name) =>
          /\ last.ai = 1
          /\ last.category =
                IF ~last.resp.raises /\ Strip(last.resp.text) \in valid_categories
                THEN Strip(last.resp.text)
                ELSE "Other"

C2_Witness ==
    /\ classified.unknown = 2
    /\ aiCalls = 2
    /\ last.name = "mystery.xyz"
    /\ last.resp.text = " Spreadsheets\n"
    /\ last.category = "Spreadsheets"

CategoriesListing(ext) == {c \in DOMAIN categories : ext \in categories[c]}

Reversed(seq) == [i \in 1..Len(seq) |-> seq[Len(seq) + 1 - i]]

\* C10: every extension of the table is listed under exactly one category, so
\* the category get_category returns for a listed extension is the only one
\* listing it, and is the same when the table is walked in the opposite order.
C10_ExtensionsUniqueAcrossCategories ==
    last.op = "classify" /\ ListedExtension(last.name) =>
        LET ext == Lower(SplitExt(last.name)[2])
        IN  /\ CategoriesListing(ext) = {last.category}
            /\ FirstMatch(Reversed(categoryOrder), ext) = last.category

----------------------------------------------------------------------------
(* Properties of the organizer, under Spec *)

RootFilesLeft == {p \in DOMAIN fs : Len(p) = 1 /\ ~fs[p].dir /\ ~StartsWithDot(p[1])}

\* Some file with this content lies in a category folder under the watch folder.
InCategoryFolder(content) ==
    \E p \in DOMAIN fs :
        /\ Len(p) = 2
        /\ p[1] \in valid_categories
        /\ IsDir(fs, <<p[1]>>)
        /\ fs[p] = FileEntry(content)

\* C3 as claimed, for the runs in which the operating system refuses nothing
\* (every error printed is a FileExistsError): when organize_existing_files has
\* returned, no regular non-hidden file is left directly under the watch folder.
C3_NoRegularFileLeftAtRoot ==
    pc = "swept" /\ (\A e \in errors : e[2] = "FileExistsError") => RootFilesLeft = {}

\* C3 as amended: when organize_existing_files has returned, every regular
\* non-hidden file that was in the watch folder at the call has either been
\* moved into a category folder, or organize_file printed an error for it and it
\* is still at its path with its content; no other regular non-hidden file is
\* left directly under the watch folder.
C3_MovedOrReportedAndLeft ==
    pc = "swept" =>
        /\ \A n \in snapshot :
              IF \E e \in errors : e[1] = n
              THEN fs[<<n>>] = FileEntry(InitialRootFiles[n])
              ELSE ~IsFile(fs, <<n>>) /\ InCategoryFolder(InitialRootFiles[n])
        /\ RootFilesLeft = {<<e[1]>> : e \in errors}

C3_Witness ==
    /\ pc = "swept"
    /\ snapshot = {"a.txt", "m.xyz", "Documents"}
    /\ errors = {<<"a.txt", "FileExistsError">>}
    /\ IsFile(fs, <<"a.txt">>)
    /\ IsFile(fs, <<"Spreadsheets", "Documents">>)
    /\ IsFile(fs, <<"Other", "m.xyz">>)

OrganizeStep == calls' # calls /\ last'.op = "organize"

\* The k-th name organize_file tries in the folder: name.ext, name_1.ext, ...
Candidate(category, file_name, k) ==
    IF k = 0 THEN <<category, file_name>> ELSE Renamed(category, file_name, k)

\* C4: a file organize_file moves goes to the first of name.ext, name_1.ext,
\* name_2.ext, ... that does not exist in its category folder, with its content;
\* and no step removes or changes a file that is in a folder under the watch
\* folder.
C4_FirstFreeNameNothingOverwritten ==
    [][ /\ OrganizeStep /\ last'.outcome = "moved" =>
              /\ \E k \in 0..Cardinality(DOMAIN fs) :
                    /\ last'.dest = Candidate(last'.category, last'.name, k)
                    /\ ~Exists(fs, last'.dest)
                    /\ \A j \in 0..(k - 1) :
                          Exists(fs, Candidate(last'.category, last'.name, j))
              /\ fs'[last'.dest] = fs[<<last'.name>>]
        /\ \A p \in DOMAIN fs : Len(p) = 2 => p \in DOMAIN fs' /\ fs'[p] = fs[p]
      ]_vars

C4_Witness ==
    /\ last.outcome = "moved"
    /\ last.name = "a.txt"
    /\ last.dest = <<"Documents", "a_2.txt">>
    /\ fs[<<"Documents", "a.txt">>] = FileEntry(6)
    /\ fs[<<"Documents", "a_1.txt">>] = FileEntry(7)
    /\ fs[<<"Documents", "a_2.txt">>] = FileEntry(1)

C6_FailuresStayLocal ==
    /\ pc # "crashed"
    /\ observer # "dead"
    /\ ~last.escaped
    /\ pc = "swept" => calls.sweep = Cardinality(snapshot)
    /\ observer = "stopped" => pc \in {"joining", "exited"}
    /\ pc = "watching" => observer = "running"

C6_Witness ==
    /\ pc = "watching"
    /\ snapshot = {}
    /\ \E e \in errors : e[2] = "OSError"
    /\ calls.event = 2
    /\ last.outcome = "moved"

\* C7: when the category folder of a file cannot be created (its path is a
\* regular file, or it is missing and its creation is refused), organize_file
\* prints an error for the file, moves nothing and leaves the whole filesystem,
\* the file included, as it was; the call is over and the file is not queued
\* again.
C7_FolderCreationFailureLeavesFile ==
    [][ ( /\ OrganizeStep
          /\ last'.category # ""
          /\ (IsFile(fs, <<last'.category>>) \/ last'.refused) )
        => /\ fs' = fs
           /\ \E e \in errors' : e[1] = last'.name
           /\ last'.outcome # "moved"
           /\ last'.caller = "sweep" => last'.name \notin todo'
           /\ last'.caller = "event" => handling' = {} /\ events' = events
      ]_vars

C7_Witness ==
    /\ last.outcome = "mkdir failed"
    /\ last.name = "a.txt"
    /\ last.category = "Documents"
    /\ IsFile(fs, <<"Documents">>)
    /\ fs[<<"a.txt">>] = FileEntry(1)
    /\ <<"a.txt", "FileExistsError">> \in errors

DispatchStep == events # <<>> /\ events' = Tail(events)

\* C8: every creation event for a non-directory that was dispatched has led to
\* one organize_file call, or its callback is still in progress; that call is on
\* the event's path; dispatching a modification event or a creation event for a
\* directory changes neither the filesystem nor the call counters and starts no
\* callback work.
C8_OnlyFileCreationsOrganized ==
    /\ [](calls.event + Cardinality(handling) = delivered)
    /\ [][ /\ DispatchStep /\ (Head(events).kind = "modified" \/ Head(events).is_directory)
              => UNCHANGED <<fs, aiCalls, calls, handling, errors>>
           /\ DispatchStep /\ Head(events).kind = "created" /\ ~Head(events).is_directory
              => handling' = handling \cup {Head(events)} /\ UNCHANGED <<fs, aiCalls, calls>>
           /\ OrganizeStep /\ last'.caller = "event"
              => /\ calls'.event = calls.event + 1
                 /\ \E e \in handling : e.src_path = last'.name /\ handling' = handling \ {e}
         ]_vars

C8_Witness ==
    /\ envOps = 2
    /\ events = <<>>
    /\ IsDir(fs, <<"m.xyz">>)
    /\ delivered = 1
    /\ calls.event = 1
    /\ handling = {}
    /\ last.caller = "event"
    /\ last.name = "a.txt"

\* C9: while main is before or in the sweep the observer has not been started,
\* no event is queued and no callback is in progress; and at most one callback
\* is in progress at any time.
C9_OneOrganizeAtATime ==
    /\ pc \in {"main", "sweeping"} => observer = "new" /\ events = <<>> /\ handling = {}
    /\ Cardinality(handling) <= 1

C9_Witness ==
    /\ calls.sweep > 0
    /\ Cardinality(handling) = 1
    /\ Len(events) = 1
    /\ calls.event = 0

====
